---------------------------- MODULE Spec2Model ----------------------------
(***************************************************************************)
(* Model of server.js: the Nifty 50 scanner backend.                       *)
(*                                                                         *)
(*   - JavaScript numbers are modelled as extended rationals: a finite     *)
(*     value n/d, NaN, +Infinity, -Infinity, plus the value undefined.     *)
(*     Binary rounding error and the sign of zero are not modelled.        *)
(*   - calculateIndicators and calculateProbability are operators.         *)
(*   - the GET /api/stocks handler is a process per request whose atomic   *)
(*     steps are the stretches of code between two awaits.                 *)
(***************************************************************************)
EXTENDS Integers, Sequences, FiniteSets, TLC

(***************************************************************************)
(* Bounds of the model.                                                    *)
(***************************************************************************)
\* number of concurrent GET /api/stocks requests
MaxReq == 2
\* number of symbols of NIFTY_50 a scan walks through
NSymbols == 2
\* longest price series given to calculateIndicators
MaxBars == 36
\* longest result list given to the sort
MaxResults == 3
\* longest volume window given to calculateProbability
LongWindow == 11

(***************************************************************************)
(* Program constants.                                                      *)
(***************************************************************************)
RocPeriod == 5
FastPeriod == 12
SlowPeriod == 26
SignalPeriod == 9
AtrPeriod == 14
RsiPeriod == 14
VolumeWindow == 10
VolatilityWeight == 40
MomentumWeight == 30
VolumeWeight == 20
GapWeight == 10
BaseCap == 90
BonusCap == 95
Bonus == 5
DelayMs == 15000
ErrorStatus == 500

(***************************************************************************)
(* JavaScript values.  Each operation is a function applied to its         *)
(* operands, so that an operand is evaluated once.                         *)
(***************************************************************************)
JSValue == [k : {"fin", "nan", "inf", "undef"}, n : Int, d : Int]

GCD[a \in Nat, b \in Nat] == IF b = 0 THEN a ELSE GCD[b, a % b]

AbsInt(i) == IF i < 0 THEN -i ELSE i

Sign(i) == IF i > 0 THEN 1 ELSE IF i < 0 THEN -1 ELSE 0

\* the finite number n/d, reduced, d > 0
Fin(n, d) ==
  LET f[p \in Int, q \in Int] ==
        [k |-> "fin",
         n |-> Sign(q) * (p \div GCD[AbsInt(p), AbsInt(q)]),
         d |-> AbsInt(q) \div GCD[AbsInt(p), AbsInt(q)]]
  IN f[n, d]

Num(i) == [k |-> "fin", n |-> i, d |-> 1]
NaN == [k |-> "nan", n |-> 0, d |-> 0]
Undefined == [k |-> "undef", n |-> 0, d |-> 0]
\* +Infinity is Inf(1), -Infinity is Inf(-1)
Inf(s) == [k |-> "inf", n |-> s, d |-> 0]

\* ToNumber: undefined becomes NaN
ToNumber(x) ==
  LET f[a \in JSValue] == IF a.k = "undef" THEN NaN ELSE a
  IN f[x]

Add(x, y) ==
  LET f[a \in JSValue, b \in JSValue] ==
        CASE a.k = "nan" \/ b.k = "nan" -> NaN
          [] a.k = "inf" /\ b.k = "inf" -> IF a.n = b.n THEN a ELSE NaN
          [] a.k = "inf" -> a
          [] b.k = "inf" -> b
          [] OTHER -> Fin(a.n * b.d + b.n * a.d, a.d * b.d)
  IN f[ToNumber(x), ToNumber(y)]

Neg(x) ==
  LET f[a \in JSValue] == IF a.k = "nan" THEN NaN ELSE [a EXCEPT !.n = -a.n]
  IN f[ToNumber(x)]

Sub(x, y) == Add(x, Neg(y))

Mul(x, y) ==
  LET f[a \in JSValue, b \in JSValue] ==
        CASE a.k = "nan" \/ b.k = "nan" -> NaN
          [] a.k = "inf" \/ b.k = "inf" ->
               IF a.n = 0 \/ b.n = 0 THEN NaN ELSE Inf(Sign(a.n) * Sign(b.n))
          [] OTHER -> Fin(a.n * b.n, a.d * b.d)
  IN f[ToNumber(x), ToNumber(y)]

Div(x, y) ==
  LET f[a \in JSValue, b \in JSValue] ==
        CASE a.k = "nan" \/ b.k = "nan" -> NaN
          [] a.k = "inf" /\ b.k = "inf" -> NaN
          [] a.k = "inf" -> Inf(a.n * (IF b.n < 0 THEN -1 ELSE 1))
          [] b.k = "inf" -> Num(0)
          [] b.n = 0 -> IF a.n = 0 THEN NaN ELSE Inf(Sign(a.n))
          [] OTHER -> Fin(a.n * b.d, a.d * b.n)
  IN f[ToNumber(x), ToNumber(y)]

MathAbs(x) ==
  LET f[a \in JSValue] == IF a.k = "nan" THEN NaN ELSE [a EXCEPT !.n = AbsInt(a.n)]
  IN f[ToNumber(x)]

\* x < y; false when either side is NaN
Lt(x, y) ==
  LET f[a \in JSValue, b \in JSValue] ==
        CASE a.k = "nan" \/ b.k = "nan" -> FALSE
          [] a.k = "inf" /\ b.k = "inf" -> a.n < b.n
          [] a.k = "inf" -> a.n < 0
          [] b.k = "inf" -> b.n > 0
          [] OTHER -> a.n * b.d < b.n * a.d
  IN f[ToNumber(x), ToNumber(y)]

Gt(x, y) == Lt(y, x)

\* x <= y; false when either side is NaN
Leq(x, y) ==
  LET f[a \in JSValue, b \in JSValue] == a.k # "nan" /\ b.k # "nan" /\ ~Lt(b, a)
  IN f[ToNumber(x), ToNumber(y)]

Geq(x, y) == Leq(y, x)

MathMin(x, y) ==
  LET f[a \in JSValue, b \in JSValue] ==
        CASE a.k = "nan" \/ b.k = "nan" -> NaN
          [] Lt(b, a) -> b
          [] OTHER -> a
  IN f[ToNumber(x), ToNumber(y)]

\* Math.round: the nearest integer, a half rounded towards +Infinity
MathRound(x) ==
  LET f[a \in JSValue] ==
        IF a.k = "fin" THEN Num((2 * a.n + a.d) \div (2 * a.d)) ELSE a
  IN f[ToNumber(x)]

\* the truth value of x in a condition
Truthy(x) ==
  LET f[a \in JSValue] == (a.k = "fin" /\ a.n # 0) \/ a.k = "inf"
  IN f[x]

IsInteger(x) == x.k = "fin" /\ x.d = 1

RECURSIVE Pow10(_)
Pow10(f) == IF f = 0 THEN 1 ELSE 10 * Pow10(f - 1)

\* parseFloat(x.toFixed(digits)): x to that many decimals, a half rounded
\* away from zero; toFixed of undefined is a TypeError, decided by the caller
ToFixedNum(x, digits) ==
  LET f[a \in JSValue] ==
        IF a.k # "fin" THEN a
        ELSE Fin(Sign(a.n) * ((2 * AbsInt(a.n) * Pow10(digits) + a.d) \div (2 * a.d)),
                 Pow10(digits))
  IN f[ToNumber(x)]

(***************************************************************************)
(* parseFloat on a string, given as its sequence of characters: an         *)
(* optional minus sign, digits, an optional fraction; what follows is      *)
(* ignored; no digits at all gives NaN.  Exponents are not modelled.       *)
(***************************************************************************)
Digits == {"0", "1", "2", "3", "4", "5", "6", "7", "8", "9"}

DigitVal(c) ==
  CASE c = "0" -> 0 [] c = "1" -> 1 [] c = "2" -> 2 [] c = "3" -> 3
    [] c = "4" -> 4 [] c = "5" -> 5 [] c = "6" -> 6 [] c = "7" -> 7
    [] c = "8" -> 8 [] c = "9" -> 9

\* the number of leading digits of s from position i
RECURSIVE DigitRun(_, _)
DigitRun(s, i) ==
  IF i <= Len(s) /\ s[i] \in Digits THEN 1 + DigitRun(s, i + 1) ELSE 0

\* the value of the digits s[i .. i+len-1]
RECURSIVE DigitsValue(_, _, _)
DigitsValue(s, i, len) ==
  IF len = 0 THEN 0
  ELSE 10 * DigitsValue(s, i, len - 1) + DigitVal(s[i + len - 1])

\* the number the characters c spell
ParseChars(c) ==
  LET neg == Len(c) > 0 /\ c[1] = "-"
      i0 == IF neg THEN 2 ELSE 1
      ni == DigitRun(c, i0)
      dot == i0 + ni <= Len(c) /\ c[i0 + ni] = "."
      nf == IF dot THEN DigitRun(c, i0 + ni + 1) ELSE 0
      whole == DigitsValue(c, i0, ni)
      frac == DigitsValue(c, i0 + ni + 1, nf)
      mag == Fin(whole * Pow10(nf) + frac, Pow10(nf))
  IN IF ni + nf = 0 THEN NaN
     ELSE IF neg THEN Neg(mag) ELSE mag

\* parseFloat of a field: a missing field is undefined and parses to NaN
ParseFloat(s) ==
  IF s.k # "str" THEN NaN ELSE ParseChars(s.chars)

Str(chars) == [k |-> "str", chars |-> chars]
NoField == [k |-> "undef", chars |-> <<>>]


(***************************************************************************)
(* The technicalindicators library (ROC, MACD, ATR, RSI).  Its code is not *)
(* part of server.js; the length of each result follows the minimum window *)
(* of the indicator.  ROC is computed; the latest MACD, ATR and RSI values *)
(* are supplied by lib, the values the library computes for the series.    *)
(***************************************************************************)
Max(a, b) == IF a > b THEN a ELSE b

ROCCalculate(period, values) ==
  [i \in 1..Max(0, Len(values) - period) |->
     Div(Sub(values[i + period], values[i]), values[i])]

MACDCalculate(values, fastPeriod, slowPeriod, signalPeriod, lib) ==
  [i \in 1..Max(0, Len(values) - (slowPeriod + signalPeriod - 1) + 1) |-> lib.macd]

ATRCalculate(high, low, close, period, lib) ==
  [i \in 1..Max(0, Len(close) - period) |-> lib.atr]

RSICalculate(values, period, lib) ==
  [i \in 1..Max(0, Len(values) - period) |-> lib.rsi]

(***************************************************************************)
(* fetchStockData: the provider's reply becomes the payload, or null when  *)
(* axios.get throws.                                                       *)
(***************************************************************************)
Null == [k |-> "null"]

FetchStockData(reply) ==
  IF reply.k = "reject" THEN Null ELSE reply.data

(***************************************************************************)
(* calculateIndicators                                                     *)
(***************************************************************************)
Reverse(s) == [i \in 1..Len(s) |-> s[Len(s) + 1 - i]]

\* a[i] of a JavaScript array, i counted from 0
At(a, i) == IF i >= 0 /\ i < Len(a) THEN a[i + 1] ELSE Undefined

\* the last element read without looking at the length
LastUnguarded(a, default) == At(a, Len(a) - 1)

\* the fallback of lines 78-81: the last element, or the default when empty
LastOr(a, default) == IF Len(a) > 0 THEN a[Len(a)] ELSE default

MacdDefault == [histogram |-> Num(0), MACD |-> Num(0), signal |-> Num(0)]

\* one field of every entry, in Object.keys order
Column(timeSeries, field) ==
  [i \in 1..Len(timeSeries) |-> ParseFloat(timeSeries[i][field])]

\* the snapshot returned (lines 63-84)
Snapshot(closes, highs, lows, volumes, lib) ==
  [k |-> "object",
   closes |-> closes,
   volumes |-> volumes,
   roc |-> LastOr(ROCCalculate(RocPeriod, closes), Num(0)),
   macd |-> LastOr(MACDCalculate(closes, FastPeriod, SlowPeriod, SignalPeriod, lib),
                   MacdDefault),
   atr |-> LastOr(ATRCalculate(highs, lows, closes, AtrPeriod, lib), Num(0)),
   rsi |-> LastOr(RSICalculate(closes, RsiPeriod, lib), Num(0)),
   lastPrice |-> At(closes, Len(closes) - 1),
   prevClose |-> IF Len(closes) > 1 THEN At(closes, Len(closes) - 2)
                 ELSE At(closes, 0)]

CalculateIndicators(data, lib) ==
  IF data.k = "null" \/ ~data.hasSeries THEN Null
  ELSE CHOOSE s \in
         {Snapshot(closes, highs, lows, volumes, lib) :
            closes \in {Reverse(Column(data.series, "close"))},
            highs \in {Reverse(Column(data.series, "high"))},
            lows \in {Reverse(Column(data.series, "low"))},
            volumes \in {Reverse(Column(data.series, "volume"))}} : TRUE

(***************************************************************************)
(* calculateProbability                                                    *)
(***************************************************************************)
\* volumes.slice(-10)
SliceLast(a, n) == SubSeq(a, Max(1, Len(a) - n + 1), Len(a))

\* the sum of the first n elements of a, from 0
RECURSIVE SumTo(_, _)
SumTo(a, n) == IF n = 0 THEN Num(0) ELSE Add(SumTo(a, n - 1), a[n])

\* a.reduce((a, b) => a + b, 0)
ReduceSum(a) == SumTo(a, Len(a))

Gap(ind) ==
  IF Truthy(ind.prevClose)
  THEN MathAbs(Div(Sub(ind.lastPrice, ind.prevClose), ind.prevClose))
  ELSE Num(0)

VolumeRatio(ind) ==
  LET avgVolume[recentVolumes \in {SliceLast(ind.volumes, VolumeWindow)}] ==
        Div(ReduceSum(recentVolumes), Num(Len(recentVolumes)))
  IN Div(At(ind.volumes, Len(ind.volumes) - 1),
         avgVolume[SliceLast(ind.volumes, VolumeWindow)])

VolatilityScore(ind) ==
  MathMin(Num(1), Div(ind.atr, Mul(ind.lastPrice, Fin(1, 100))))

MomentumScore(ind) ==
  MathMin(Num(1), Div(Add(MathAbs(ind.roc), MathAbs(ind.macd.histogram)), Num(2)))

VolumeScore(ind) == MathMin(Num(1), Div(VolumeRatio(ind), Fin(3, 2)))

GapScore(ind) == MathMin(Num(1), Div(Gap(ind), Fin(5, 1000)))

\* the probability before the direction is looked at (lines 108-113)
BaseProbability(ind) ==
  MathMin(Num(BaseCap),
          Add(Add(Add(Mul(VolatilityScore(ind), Num(VolatilityWeight)),
                      Mul(MomentumScore(ind), Num(MomentumWeight))),
                  Mul(VolumeScore(ind), Num(VolumeWeight))),
              Mul(GapScore(ind), Num(GapWeight))))

\* a direction rule with the buy of a rising ROC against a falling
\* histogram lost
DirectionNeedsAgreement(roc, histogram, probability) ==
  IF Gt(roc, Num(0)) /\ Gt(histogram, Num(0))
  THEN [direction |-> "buy", probability |-> MathMin(Num(BonusCap), Add(probability, Num(Bonus)))]
  ELSE IF Lt(roc, Num(0)) /\ Lt(histogram, Num(0))
  THEN [direction |-> "sell", probability |-> probability]
  ELSE [direction |-> "neutral", probability |-> probability]

\* the direction and the adjusted probability (lines 115-127)
DetermineDirection(roc, histogram, probability) ==
  IF Gt(roc, Num(0)) /\ Gt(histogram, Num(0))
  THEN [direction |-> "buy", probability |-> MathMin(Num(BonusCap), Add(probability, Num(Bonus)))]
  ELSE IF Lt(roc, Num(0)) /\ Lt(histogram, Num(0))
  THEN [direction |-> "sell", probability |-> probability]
  ELSE IF Gt(roc, Num(0))
  THEN [direction |-> "buy", probability |-> probability]
  ELSE IF Lt(roc, Num(0))
  THEN [direction |-> "sell", probability |-> probability]
  ELSE [direction |-> "neutral", probability |-> probability]

\* x.toFixed(..) throws a TypeError when x is undefined
TypeError == [k |-> "throw", error |-> "TypeError"]

CalculateProbability(ind) ==
  IF ind.k = "null" THEN Null
  ELSE IF \E x \in {ind.roc, ind.macd.histogram, ind.atr, ind.rsi} : x.k = "undef"
  THEN TypeError
  ELSE CHOOSE prediction \in
         {[k |-> "object",
                probability |-> MathRound(adjusted.probability),
                direction |-> adjusted.direction,
                indicators |-> [roc |-> ToFixedNum(ind.roc, 2),
                                macd |-> ToFixedNum(ind.macd.histogram, 2),
                                atr |-> ToFixedNum(ind.atr, 2),
                                rsi |-> ToFixedNum(ind.rsi, 1),
                                volumeRatio |-> ToFixedNum(VolumeRatio(ind), 2)]] :
            adjusted \in {DetermineDirection(ind.roc, ind.macd.histogram,
                                             BaseProbability(ind))}} : TRUE


(***************************************************************************)
(* results.sort((a, b) => b.probability - a.probability)                   *)
(***************************************************************************)
\* the comparator; sort reads a NaN result as +0
Compare(a, b) ==
  LET v == Sub(b.probability, a.probability)
  IN IF v.k = "nan" THEN Num(0) ELSE v

\* a comparator is consistent when "compares equal" is transitive and the
\* order it gives is transitive; only then is the sorted order defined
ConsistentComparator(list) ==
  \A i, j, l \in 1..Len(list) :
    /\ (Compare(list[i], list[j]).n = 0 /\ Compare(list[j], list[l]).n = 0)
         => Compare(list[i], list[l]).n = 0
    /\ (Compare(list[i], list[j]).n < 0 /\ Compare(list[j], list[l]).n = 0)
         => Compare(list[i], list[l]).n < 0
    /\ (Compare(list[i], list[j]).n = 0 /\ Compare(list[j], list[l]).n < 0)
         => Compare(list[i], list[l]).n < 0

\* x put into the sorted list s behind the last element that does not
\* compare greater than it
Insert(s, x) ==
  LET f[t \in {s}] ==
        LET p == CHOOSE j \in 0..Len(t) :
                   /\ j = 0 \/ ~Gt(Compare(t[j], x), Num(0))
                   /\ \A i \in (j + 1)..Len(t) : Gt(Compare(t[i], x), Num(0))
        IN SubSeq(t, 1, p) \o <<x>> \o SubSeq(t, p + 1, Len(t))
  IN f[s]

\* the first n elements of list, sorted
RECURSIVE SortPrefix(_, _)
SortPrefix(list, n) ==
  IF n = 0 THEN <<>> ELSE Insert(SortPrefix(list, n - 1), list[n])

\* the stable sort of Array.prototype.sort
StableSort(list) == SortPrefix(list, Len(list))

Rearrangements(list) ==
  {[i \in 1..Len(list) |-> list[f[i]]] :
     f \in {g \in [1..Len(list) -> 1..Len(list)] :
              \A i, j \in 1..Len(list) : i # j => g[i] # g[j]}}

\* the orders the sort may leave: the stable order, or with an inconsistent
\* comparator an order of the implementation's choosing
SortOutcomes(list) ==
  IF ConsistentComparator(list) THEN {StableSort(list)} ELSE Rearrangements(list)

(***************************************************************************)
(* The symbol list (its first entries), each symbol as the parts around    *)
(* its dot: <<"RELIANCE", "BSE">> is 'RELIANCE.BSE'.                       *)
(***************************************************************************)
NIFTY_50 ==
  << <<"RELIANCE", "BSE">>, <<"TCS", "BSE">>, <<"HDFCBANK", "BSE">>,
     <<"INFY", "BSE">>, <<"HINDUNILVR", "BSE">> >>

\* symbol.split('.')[0]
StockName(symbol) == symbol[1]

(***************************************************************************)
(* The result record of one symbol (lines 156-163).  Evaluating the name   *)
(* prevClose, which no scope of the handler declares, throws.              *)
(***************************************************************************)
DeclaredNames ==
  {"app", "express", "cors", "axios", "ROC", "MACD", "ATR", "RSI", "PORT",
   "NIFTY_50", "fetchStockData", "calculateIndicators", "calculateProbability",
   "req", "res", "results", "symbol", "rawData", "indicators", "prediction",
   "stockName"}

ReferenceError == [k |-> "throw", error |-> "ReferenceError"]

ResultRecord(stockName, indicators, prediction, prevClose) ==
  [k |-> "object",
   symbol |-> stockName,
   price |-> indicators.lastPrice,
   change |-> IF Truthy(prevClose)
              THEN ToFixedNum(Mul(Div(Sub(indicators.lastPrice, indicators.prevClose),
                                      indicators.prevClose), Num(100)), 2)
              ELSE Num(0),
   volatility |-> ToFixedNum(Mul(Div(indicators.atr, indicators.lastPrice), Num(100)), 2),
   probability |-> prediction.probability,
   direction |-> prediction.direction,
   indicators |-> prediction.indicators]

\* the record built with the snapshot's own prevClose
BuildRecordFromSnapshot(stockName, indicators, prediction) ==
  ResultRecord(stockName, indicators, prediction, indicators.prevClose)

BuildRecord(stockName, indicators, prediction) ==
  IF "prevClose" \notin DeclaredNames THEN ReferenceError
  ELSE ResultRecord(stockName, indicators, prediction, indicators.prevClose)

\* the body of one loop iteration after the fetch (lines 149-165): the new
\* results, or the error thrown
ProcessStep(res, symbol, indicators, prediction) ==
  IF indicators.k = "null" THEN [k |-> "ok", results |-> res, predicted |-> FALSE]
  ELSE IF prediction.k = "throw"
  THEN [k |-> "throw", results |-> res, predicted |-> FALSE]
  ELSE IF prediction.k = "null" THEN [k |-> "ok", results |-> res, predicted |-> FALSE]
  ELSE LET record == BuildRecord(StockName(symbol), indicators, prediction)
       IN IF record.k = "throw"
          THEN [k |-> "throw", results |-> res, predicted |-> TRUE]
          ELSE [k |-> "ok", results |-> Append(res, record), predicted |-> TRUE]

ProcessSymbol(res, symbol, rawData, lib) ==
  CHOOSE step \in
    {ProcessStep(res, symbol, indicators, CalculateProbability(indicators)) :
       indicators \in {CalculateIndicators(rawData, lib)}} : TRUE

(***************************************************************************)
(* State.                                                                  *)
(***************************************************************************)
VARIABLES
  pc,        \* per request: "idle", "fetching", "delaying", "done"
  idx,       \* per request: the position in NIFTY_50 of the symbol in hand
  results,   \* per request: the handler's results array
  timer,     \* per request: the milliseconds of the pending setTimeout, or 0
  response,  \* per request: what res has sent
  sent,      \* per request: how many times res has sent
  outcomes,  \* per request: how the processing of each symbol so far went
  lastKind,  \* per request: what the latest provider call gave
  data,      \* the payload given to calculateIndicators
  lib,       \* the latest values the indicator library computes for data
  snap,      \* the indicator snapshot
  pred,      \* what calculateProbability returned
  list,      \* the array given to sort
  sorted     \* the array sort left

vars ==
  <<pc, idx, results, timer, response, sent, outcomes, lastKind,
    data, lib, snap, pred, list, sorted>>

scanVars == <<pc, idx, results, timer, response, sent, outcomes, lastKind>>
pureVars == <<data, lib, snap, pred, list, sorted>>

None == [k |-> "none"]

Requests == 1..MaxReq
Symbols == SubSeq(NIFTY_50, 1, NSymbols)

(***************************************************************************)
(* Provider payloads.                                                      *)
(***************************************************************************)
BarA ==
  [close |-> Str(<<"1", "0", "0", ".", "0", "0">>),
   high |-> Str(<<"1", "0", "0", ".", "5", "0">>),
   low |-> Str(<<"9", "9", ".", "5", "0">>),
   volume |-> Str(<<"1", "0", "0", "0">>)]

BarB ==
  [close |-> Str(<<"1", "0", "2", ".", "5", "0">>),
   high |-> Str(<<"1", "0", "3", ".", "0", "0">>),
   low |-> Str(<<"1", "0", "2", ".", "0", "0">>),
   volume |-> Str(<<"3", "0", "0", "0">>)]

\* a bar whose volume field is missing
BarC ==
  [close |-> Str(<<"9", "8", ".", "2", "5">>),
   high |-> Str(<<"9", "9">>),
   low |-> Str(<<"9", "8">>),
   volume |-> NoField]

Patterns == {<<BarA, BarB>>, <<BarB, BarA>>, <<BarA, BarC>>}

\* the series of n bars, newest first, that repeats pattern p
Series(n, p) == [i \in 1..n |-> p[1 + ((i - 1) % Len(p))]]

\* a reply with a 'Time Series (5min)' object
SeriesPayload(series) == [k |-> "object", hasSeries |-> TRUE, series |-> series]
\* a reply without one (an error message or a rate-limit note)
NotePayload == [k |-> "object", hasSeries |-> FALSE, series |-> <<>>]

LibValues ==
  {[macd |-> [histogram |-> Fin(1, 5), MACD |-> Fin(3, 10), signal |-> Fin(1, 10)],
    atr |-> Fin(1, 2), rsi |-> Fin(1111, 20)],
   [macd |-> [histogram |-> Fin(-1, 4), MACD |-> Fin(-1, 2), signal |-> Fin(-1, 4)],
    atr |-> Num(2), rsi |-> Num(30)]}

ProviderReplies ==
  {[k |-> "reject", data |-> Null],
   [k |-> "resolve", data |-> NotePayload],
   [k |-> "resolve", data |-> SeriesPayload(<<>>)],
   [k |-> "resolve", data |-> SeriesPayload(Series(2, <<BarA, BarB>>))],
   [k |-> "resolve", data |-> SeriesPayload(Series(RocPeriod + 2, <<BarB, BarA>>))]}

\* the outcomes that leave no bars to score
Unavailable == {"throws", "nofield", "empty"}

\* the four provider outcomes
OutcomeKind(reply) ==
  IF reply.k = "reject" THEN "throws"
  ELSE IF ~reply.data.hasSeries THEN "nofield"
  ELSE IF Len(reply.data.series) = 0 THEN "empty"
  ELSE "usable"

(***************************************************************************)
(* The GET /api/stocks handler.                                            *)
(***************************************************************************)
ScanInit ==
  /\ pc = [r \in Requests |-> "idle"]
  /\ idx = [r \in Requests |-> 0]
  /\ results = [r \in Requests |-> <<>>]
  /\ timer = [r \in Requests |-> 0]
  /\ response = [r \in Requests |-> [k |-> "none", status |-> 0, body |-> <<>>]]
  /\ sent = [r \in Requests |-> 0]
  /\ outcomes = [r \in Requests |-> <<>>]
  /\ lastKind = [r \in Requests |-> "none"]

PureIdle ==
  /\ data = None
  /\ lib = None
  /\ snap = None
  /\ pred = None
  /\ list = <<>>
  /\ sorted = None

\* res.json(results) after the sort (lines 172-174)
Finish(r, res) ==
  \E out \in SortOutcomes(res) :
    /\ results' = [results EXCEPT ![r] = out]
    /\ response' = [response EXCEPT ![r] = [k |-> "list", status |-> 200, body |-> out]]
    /\ sent' = [sent EXCEPT ![r] = @ + 1]
    /\ pc' = [pc EXCEPT ![r] = "done"]
    /\ idx' = idx

\* the for loop goes to its next symbol and calls the provider, or ends
LoopNext(r, res) ==
  IF idx[r] < Len(Symbols)
  THEN /\ idx' = [idx EXCEPT ![r] = @ + 1]
       /\ pc' = [pc EXCEPT ![r] = "fetching"]
       /\ results' = [results EXCEPT ![r] = res]
       /\ UNCHANGED <<response, sent>>
  ELSE Finish(r, res)

\* the loop goes on without waiting
AwaitDelaySkipped(r, res) ==
  /\ LoopNext(r, res)
  /\ timer' = timer

\* await new Promise(resolve => setTimeout(resolve, 15000)) (line 168)
AwaitDelay(r, res) ==
  /\ pc' = [pc EXCEPT ![r] = "delaying"]
  /\ timer' = [timer EXCEPT ![r] = DelayMs]
  /\ results' = [results EXCEPT ![r] = res]
  /\ UNCHANGED <<idx, response, sent>>

\* the error is answered and the loop goes on to its delay
HandleErrorAndContinue(r) ==
  /\ response' = [response EXCEPT ![r] =
                    [k |-> "error", status |-> ErrorStatus, body |-> <<"Internal server error">>]]
  /\ sent' = [sent EXCEPT ![r] = @ + 1]
  /\ pc' = [pc EXCEPT ![r] = "delaying"]
  /\ timer' = [timer EXCEPT ![r] = DelayMs]
  /\ UNCHANGED <<idx, results>>

\* the catch block (lines 175-178)
HandleError(r) ==
  /\ response' = [response EXCEPT ![r] =
                    [k |-> "error", status |-> ErrorStatus, body |-> <<"Internal server error">>]]
  /\ sent' = [sent EXCEPT ![r] = @ + 1]
  /\ pc' = [pc EXCEPT ![r] = "done"]
  /\ UNCHANGED <<idx, results, timer>>

\* a request arrives: results = [], and the loop calls the provider for the
\* first symbol
Receive(r) ==
  /\ pc[r] = "idle"
  /\ pc' = [pc EXCEPT ![r] = "fetching"]
  /\ idx' = [idx EXCEPT ![r] = 1]
  /\ results' = [results EXCEPT ![r] = <<>>]
  /\ UNCHANGED <<timer, response, sent, outcomes, lastKind>>
  /\ UNCHANGED pureVars

\* the provider call returns: the symbol is processed, then the delay starts
FetchReturns(r) ==
  /\ pc[r] = "fetching"
  /\ \E reply \in ProviderReplies, l \in LibValues :
       \E step \in {ProcessSymbol(results[r], Symbols[idx[r]], FetchStockData(reply), l)} :
          /\ lastKind' = [lastKind EXCEPT ![r] = OutcomeKind(reply)]
          /\ outcomes' = [outcomes EXCEPT ![r] =
                            Append(@, [unavailable |-> OutcomeKind(reply) \in Unavailable,
                                       predicted |-> step.predicted,
                                       threw |-> step.k = "throw"])]
          /\ IF step.k = "throw" THEN HandleError(r)
             ELSE AwaitDelay(r, step.results)
  /\ UNCHANGED pureVars

\* the delay timer fires
TimerFires(r) ==
  /\ pc[r] = "delaying"
  /\ timer[r] = DelayMs
  /\ timer' = [timer EXCEPT ![r] = 0]
  /\ LoopNext(r, results[r])
  /\ UNCHANGED <<outcomes, lastKind>>
  /\ UNCHANGED pureVars

Init == ScanInit /\ PureIdle

Next == \E r \in Requests : Receive(r) \/ FetchReturns(r) \/ TimerFires(r)

Spec == Init /\ [][Next]_vars

\* every provider call returns and every timer fires
FairSpec ==
  /\ Spec
  /\ \A r \in Requests : WF_vars(FetchReturns(r)) /\ WF_vars(TimerFires(r))


(***************************************************************************)
(* calculateIndicators applied to one payload.                             *)
(***************************************************************************)
IndInputs ==
  {Null, NotePayload}
    \cup {SeriesPayload(Series(n, p)) : n \in 0..MaxBars, p \in Patterns}

IndInit ==
  /\ ScanInit
  /\ data \in IndInputs
  /\ lib \in LibValues
  /\ snap = None
  /\ pred = None
  /\ list = <<>>
  /\ sorted = None

Calculate ==
  /\ snap.k = "none"
  /\ snap' = CalculateIndicators(data, lib)
  /\ UNCHANGED <<data, lib, pred, list, sorted>>
  /\ UNCHANGED scanVars

SpecInd == IndInit /\ [][Calculate]_vars

(***************************************************************************)
(* calculateProbability applied to one snapshot.                           *)
(***************************************************************************)
RocInputs == {Num(-2), Num(0), Fin(1, 2), Num(3), NaN}
HistogramInputs == {Num(-1), Num(0), Fin(1, 4), NaN, Undefined}
AtrInputs == {Num(0), Fin(1, 2), Num(2)}
RsiInputs == {Num(0), Fin(1111, 20)}
\* <<lastPrice, prevClose>>
PriceInputs ==
  {<<Num(0), Num(0)>>, <<Num(0), Num(100)>>, <<Num(100), Num(100)>>,
   <<Num(1000), Num(1002)>>, <<Undefined, Undefined>>}
VolumeInputs ==
  {<<>>, <<Num(0)>>, <<Num(0), Num(0)>>, <<Num(1000)>>,
   <<Num(1000), Num(3000)>>, <<Num(3000), Num(1000)>>,
   [i \in 1..LongWindow |-> IF i = 1 THEN Num(9000) ELSE Num(1000)],
   [i \in 1..LongWindow |-> Num(0)]}

ScoreInputs ==
  {[k |-> "object", closes |-> <<>>, volumes |-> v, roc |-> r,
    macd |-> [histogram |-> h, MACD |-> h, signal |-> Num(0)],
    atr |-> a, rsi |-> s, lastPrice |-> p[1], prevClose |-> p[2]] :
     v \in VolumeInputs, r \in RocInputs, h \in HistogramInputs,
     a \in AtrInputs, s \in RsiInputs, p \in PriceInputs}

ScoreInit ==
  /\ ScanInit
  /\ data = None
  /\ lib = None
  /\ snap \in ScoreInputs
  /\ pred = None
  /\ list = <<>>
  /\ sorted = None

Score ==
  /\ pred.k = "none"
  /\ pred' = CalculateProbability(snap)
  /\ UNCHANGED <<data, lib, snap, list, sorted>>
  /\ UNCHANGED scanVars

SpecScore == ScoreInit /\ [][Score]_vars

(***************************************************************************)
(* The sort applied to one result list: the probabilities are those        *)
(* calculateProbability returns, NaN among them.                           *)
(***************************************************************************)
Probabilities == {NaN, Num(20), Num(50), Num(95)}

SortInputs ==
  UNION {{[i \in 1..n |-> [symbol |-> StockName(NIFTY_50[i]), probability |-> f[i]]] :
            f \in [1..n -> Probabilities]} : n \in 0..MaxResults}

SortInit ==
  /\ ScanInit
  /\ data = None
  /\ lib = None
  /\ snap = None
  /\ pred = None
  /\ list \in SortInputs
  /\ sorted = None

Sort ==
  /\ sorted.k = "none"
  /\ \E out \in SortOutcomes(list) : sorted' = [k |-> "list", items |-> out]
  /\ UNCHANGED <<data, lib, snap, pred, list>>
  /\ UNCHANGED scanVars

SpecSort == SortInit /\ [][Sort]_vars

(***************************************************************************)
(* Properties.                                                             *)
(***************************************************************************)
\* C1: a symbol whose provider call failed or whose series is empty is
\* skipped: it does not fail the scan, it is not in the list returned, and
\* the scan answers with a list after it has processed every symbol.
C1_SkippedNotFatal ==
  \A r \in Requests :
    /\ \A i \in 1..Len(outcomes[r]) :
         outcomes[r][i].unavailable => ~outcomes[r][i].threw
    /\ response[r].k = "list" =>
         \A j \in 1..Len(response[r].body), i \in 1..Len(outcomes[r]) :
           response[r].body[j].symbol = StockName(Symbols[i])
             => ~outcomes[r][i].unavailable
    /\ sent[r] > 0 => response[r].k = "list" /\ Len(outcomes[r]) = Len(Symbols)

\* C2: the probability calculateProbability returns is an integer between
\* 0 and 95.
C2_ProbabilityInRange ==
  pred.k = "object" =>
    /\ IsInteger(pred.probability)
    /\ pred.probability.n >= 0
    /\ pred.probability.n <= 95

\* C3: the direction is buy when ROC > 0, sell when ROC < 0 and neutral when
\* ROC = 0, whatever the histogram, ATR, RSI, prices and volumes.
C3_DirectionBySign ==
  pred.k = "object" =>
    /\ pred.direction \in {"buy", "sell", "neutral"}
    /\ pred.direction = (IF Gt(snap.roc, Num(0)) THEN "buy"
                         ELSE IF Lt(snap.roc, Num(0)) THEN "sell"
                         ELSE "neutral")

\* a rising ROC against a falling histogram scored as buy
C3_Witness ==
  /\ pred.k = "object"
  /\ Gt(snap.roc, Num(0))
  /\ Lt(snap.macd.histogram, Num(0))
  /\ pred.direction = "buy"

C5_OneOutstandingCall ==
  Cardinality({r \in Requests : pc[r] = "fetching"}) <= 1

\* C6: within one scan a provider call starts only for the first symbol of
\* a new request or, for the next symbol in list order, in the step in which
\* the delay timer fires; and the timer is started only in the step in which
\* the provider call in hand returns.
C6_SequentialWithDelay ==
  [][\A r \in Requests :
       /\ (pc'[r] = "fetching" /\ ~(pc[r] = "fetching" /\ idx'[r] = idx[r]))
            => \/ pc[r] = "idle" /\ idx'[r] = 1
               \/ /\ pc[r] = "delaying"
                  /\ timer[r] = 15000
                  /\ timer'[r] = 0
                  /\ idx'[r] = idx[r] + 1
       /\ (pc'[r] = "delaying" /\ pc[r] # "delaying")
            => /\ pc[r] = "fetching"
               /\ idx'[r] = idx[r]
               /\ Len(outcomes'[r]) = idx[r]
               /\ timer'[r] = 15000]_vars

\* the second symbol's call is out after the first symbol's call failed
C6_Witness ==
  \E r \in Requests :
    /\ pc[r] = "fetching"
    /\ idx[r] = 2
    /\ Len(outcomes[r]) = 1
    /\ lastKind[r] = "throws"

\* C7: a request is answered at most once, with the list only after the last
\* symbol has been processed without an error, with status 500 and the error
\* payload only when an error was thrown; an answer never changes; and every
\* request received is answered.
C7_Safe ==
  \A r \in Requests :
    /\ sent[r] <= 1
    /\ sent[r] = 0 <=> response[r].k = "none"
    /\ response[r].k = "list" =>
         /\ response[r].status = 200
         /\ Len(outcomes[r]) = Len(Symbols)
         /\ \A i \in 1..Len(outcomes[r]) : ~outcomes[r][i].threw
    /\ response[r].k = "error" =>
         /\ response[r].status = 500
         /\ response[r].body = <<"Internal server error">>
         /\ outcomes[r][Len(outcomes[r])].threw

C8_BonusBounds ==
  pred.k = "object" =>
    IF Gt(snap.roc, Num(0)) /\ Gt(snap.macd.histogram, Num(0))
    THEN /\ Geq(pred.probability, BaseProbability(snap))
         /\ Leq(pred.probability, Num(95))
    ELSE pred.probability = MathRound(BaseProbability(snap))

C10_PredictionEndsScan ==
  \A r \in Requests :
    /\ \A i \in 1..Len(outcomes[r]) :
         outcomes[r][i].predicted =>
           /\ outcomes[r][i].threw
           /\ i = Len(outcomes[r])
           /\ idx[r] = i
           /\ pc[r] = "done"
           /\ response[r].k = "error"
           /\ response[r].status = 500
    /\ response[r].k = "list" =>
         /\ response[r].body = <<>>
         /\ \A i \in 1..Len(outcomes[r]) : ~outcomes[r][i].predicted

\* a usable first symbol ended the scan with a later symbol left unfetched
C10_Witness ==
  \E r \in Requests :
    /\ pc[r] = "done"
    /\ response[r].k = "error"
    /\ Len(outcomes[r]) < Len(Symbols)
    /\ lastKind[r] = "usable"
    /\ outcomes[r][Len(outcomes[r])].predicted

=============================================================================
